---------------------------- MODULE Spec2Model ----------------------------
(***************************************************************************)
(* A model of terraform-provider-natsjwt: the data sources that mint        *)
(* operator, account, system-account and user JWTs with a deterministic     *)
(* encoder, and the config helper that assembles a memory-resolver bundle.  *)
(*                                                                          *)
(* A Terraform run holds one data block (cfg).  Terraform refreshes the     *)
(* block any number of times while the wall clock moves; every refresh      *)
(* validates the configuration against the schema and then calls Read.      *)
(* SpecKeys is the nkey resource (Create, Read, plan, Update,              *)
(* Delete on one block) and the seed_public_key function; SpecPlan is the   *)
(* keepers plan modifier, SpecSign is encodeDeterministic, each over any    *)
(* input; SpecCalls interleaves two calls.                                  *)
(*                                                                          *)
(* Values of the plugin framework (types.String, types.Int64, ...) are      *)
(* optional: Null is <<>>, a known value v is <<v>>.                        *)
(* Strings that the program only passes around (seeds, public keys) are     *)
(* strings; the nkeys library is a table from seed to role and public key.  *)
(* A token is the tuple of its three '.'-separated segments.                *)
(***************************************************************************)
EXTENDS Integers, Sequences, FiniteSets, TLC

VARIABLES
    cfg,      \* the data block under evaluation (fixed for a run)
    now,      \* wall clock, Unix seconds
    reads,    \* number of refreshes done
    diags,    \* diagnostics of the latest refresh: a set of <<attribute, summary>>
    state,    \* state written by the latest refresh (NoState when none was written)
    prior,    \* state written by the refresh before the latest
    call,     \* SpecKeys only: the latest call the provider served (NoCall when none)
    created   \* SpecKeys only: the seed the latest Create generated (Null when none)

vars == <<cfg, now, reads, diags, state, prior, call, created>>

-----------------------------------------------------------------------------
(* Bounds of the model *)

MaxReads == 2
MaxBlocks == 2
MaxTokens == 2
MaxTypes == 2

-----------------------------------------------------------------------------
(* Framework values *)

Null == <<>>
Some(v) == <<v>>
IsNull(x) == x = Null
ValueInt64(x) == IF IsNull(x) THEN 0 ELSE x[1]
ValueString(x) == IF IsNull(x) THEN "" ELSE x[1]
ValueBool(x) == IF IsNull(x) THEN FALSE ELSE x[1]

SeqsUpTo(S, n) == UNION {[1..k -> S] : k \in 0..n}

NoDiags == {}
HasError(d) == d # {}
NoState == [written |-> FALSE]
NoCall == [rpc |-> "none"]

-----------------------------------------------------------------------------
(* nkeys: seeds, key pairs, public keys, signatures *)

KeyTable ==
    [SO1 |-> [prefix |-> "operator", pub |-> "O1"],
     SA1 |-> [prefix |-> "account",  pub |-> "A1"],
     SA2 |-> [prefix |-> "account",  pub |-> "A2"],
     SA3 |-> [prefix |-> "account",  pub |-> "A3"],
     SU1 |-> [prefix |-> "user",     pub |-> "U1"],
     SN1 |-> [prefix |-> "server",   pub |-> "N1"]]

ValidSeeds == DOMAIN KeyTable
Seeds == ValidSeeds \cup {"garbage"}

\* nkeys.DecodeSeed
DecodeSeed(seed) ==
    IF seed \in ValidSeeds
    THEN [err |-> FALSE, prefix |-> KeyTable[seed].prefix]
    ELSE [err |-> TRUE, prefix |-> "unknown"]

\* keypairFromSeed (nkeys.FromSeed)
keypairFromSeed(seed) ==
    IF DecodeSeed(seed).err
    THEN [err |-> TRUE, seed |-> ""]
    ELSE [err |-> FALSE, seed |-> seed]

\* kp.PublicKey()
kpPublicKey(kp) == KeyTable[kp.seed].pub

\* kp.Sign(msg): an ed25519 signature is a function of the key and the message
kpSign(kp, msg) == <<"sig", KeyTable[kp.seed].pub, msg>>

\* the role a public key's first character names
PubPrefix(pub) ==
    IF \E s \in ValidSeeds : KeyTable[s].pub = pub
    THEN KeyTable[CHOOSE s \in ValidSeeds : KeyTable[s].pub = pub].prefix
    ELSE "unknown"

-----------------------------------------------------------------------------
(* jwt library: claims, Encode, Decode *)

EmptyID == <<>>
EmptyMap == [x \in {} |-> 0]
\* a map assignment that keeps the value of a key already present
Put_KeepFirst(m, k, v) ==
    [x \in DOMAIN m \cup {k} |-> IF x \in DOMAIN m THEN m[x] ELSE v]
Put(m, k, v) == [x \in DOMAIN m \cup {k} |-> IF x = k THEN v ELSE m[x]]

\* natsjwt.JetStreamLimits{}
ZeroJetStreamLimits ==
    [mem_storage |-> 0, disk_storage |-> 0, streams |-> 0, consumer |-> 0,
     max_ack_pending |-> 0, mem_max_stream_bytes |-> 0,
     disk_max_stream_bytes |-> 0, max_bytes_required |-> FALSE]

\* natsjwt.NewOperatorClaims
NewOperatorClaims(subject) ==
    [kind |-> "operator", sub |-> subject, iss |-> "", iat |-> 0, exp |-> 0,
     nbf |-> 0, jti |-> EmptyID, type |-> "", version |-> 0]

\* natsjwt.NewAccountClaims
NewAccountClaims(subject) ==
    [kind |-> "account", sub |-> subject, iss |-> "", iat |-> 0, exp |-> 0,
     nbf |-> 0, jti |-> EmptyID, type |-> "", version |-> 0,
     js |-> ZeroJetStreamLimits, tiered |-> EmptyMap, exports |-> <<>>]

\* natsjwt.NewUserClaims
NewUserClaims(subject) ==
    [kind |-> "user", sub |-> subject, iss |-> "", iat |-> 0, exp |-> 0,
     nbf |-> 0, jti |-> EmptyID, type |-> "", version |-> 0,
     allowed_connection_types |-> <<>>, times |-> <<>>, locale |-> ""]

\* base64.RawURLEncoding.EncodeToString / DecodeString
B64(x) == <<"b64", x>>
UnB64(s) ==
    IF Len(s) = 2 /\ s[1] = "b64"
    THEN [err |-> FALSE, v |-> s[2]]
    ELSE [err |-> TRUE, v |-> <<>>]

\* json.Marshal of a claims value: its fields, the Go type left out
Marshal(c) == <<"json", [f \in DOMAIN c \ {"kind"} |-> c[f]]>>
\* json.Unmarshal into the claims type the "type" field names (loadClaims)
loadClaims(data) ==
    IF Len(data) = 2 /\ data[1] = "json" /\ "type" \in DOMAIN data[2]
    THEN [err |-> FALSE,
          claims |-> [f \in DOMAIN data[2] \cup {"kind"} |->
                         IF f = "kind" THEN data[2].type ELSE data[2][f]]]
    ELSE [err |-> TRUE, claims |-> <<>>]

\* the header encodeDeterministic builds
JWTHeader == [typ |-> "JWT", alg |-> "ed25519-nkey"]
MarshalHeader(h) == <<"json", h>>

\* claim.ExpectedPrefixes(): the roles that may issue a claim of this type
ExpectedPrefixes(kind) ==
    CASE kind = "operator" -> {"operator"}
      [] kind = "account"  -> {"operator", "account"}
      [] kind = "user"     -> {"account"}
      [] OTHER             -> {}

\* byte order of the export subjects of the model (Exports.Less)
SubjectOrder == <<"$SYS.>", "$SYS.ACCOUNT.*.>", "$SYS.REQ.ACCOUNT.*.*", "app.>">>
SubjectRank(s) == CHOOSE i \in 1..Len(SubjectOrder) : SubjectOrder[i] = s

RECURSIVE SortExports(_)
\* sort.Sort(a.Exports)
SortExports(es) ==
    IF es = <<>> THEN <<>>
    ELSE LET m == CHOOSE i \in 1..Len(es) :
                      /\ \A j \in 1..Len(es) :
                             SubjectRank(es[i].subject) <= SubjectRank(es[j].subject)
                      /\ \A j \in 1..(i - 1) :
                             SubjectRank(es[j].subject) > SubjectRank(es[i].subject)
             rest == [k \in 1..(Len(es) - 1) |-> IF k < m THEN es[k] ELSE es[k + 1]]
         IN <<es[m]>> \o SortExports(rest)

\* claims.Encode(kp) of the jwt library at wall-clock time t: checks the
\* subject, sorts the exports and sets the type, checks the issuer's role, stamps
\* issuer, IssuedAt = now, ID = hash and version, and returns the claims as it
\* leaves them, also when it fails.
Encode(c, kp, t) ==
    IF PubPrefix(c.sub) # c.kind
    THEN [err |-> "expected subject to be public key of claim type", claims |-> c]
    ELSE LET sorted == IF "exports" \in DOMAIN c
                       THEN [c EXCEPT !.exports = SortExports(c.exports)]
                       ELSE c
         IN
         IF PubPrefix(kpPublicKey(kp)) \notin ExpectedPrefixes(c.kind)
         THEN [err |-> "unable to validate expected prefixes",
               claims |-> [sorted EXCEPT !.type = c.kind]]
         ELSE
         LET stamped == [sorted EXCEPT !.type = c.kind,
                                       !.iss = kpPublicKey(kp),
                                       !.iat = t,
                                       !.jti = EmptyID]
             hashed == [stamped EXCEPT !.jti = <<"hash", Marshal(stamped)>>,
                                       !.version = 2]
         IN [err |-> "", claims |-> hashed]

\* ed25519 verification under a public key
Verify(pub, msg, sig) == PubPrefix(pub) # "unknown" /\ sig = <<"sig", pub, msg>>

\* natsjwt.Decode
Decode(token) ==
    IF Len(token) # 3 THEN [err |-> "expected 3 chunks", claims |-> <<>>]
    ELSE LET h == UnB64(token[1])
             d == UnB64(token[2])
             s == UnB64(token[3])
         IN IF h.err \/ h.v # MarshalHeader(JWTHeader)
            THEN [err |-> "invalid header", claims |-> <<>>]
            ELSE IF d.err \/ loadClaims(d.v).err
            THEN [err |-> "invalid payload", claims |-> <<>>]
            ELSE LET c == loadClaims(d.v).claims
                     signed == IF c.version <= 1 THEN <<token[2]>>
                               ELSE <<token[1], token[2]>>
                 IN IF s.err \/ ~Verify(c.iss, signed, s.v)
                    THEN [err |-> "claim failed signature verification", claims |-> <<>>]
                    ELSE IF ExpectedPrefixes(c.kind) # {}
                            /\ PubPrefix(c.iss) \notin ExpectedPrefixes(c.kind)
                    THEN [err |-> "unable to validate expected prefixes", claims |-> <<>>]
                    ELSE [err |-> "", claims |-> c]

\* natsjwt.DecodeAccountClaims
DecodeAccountClaims(token) ==
    LET r == Decode(token)
    IN IF r.err # "" THEN r
       ELSE IF r.claims.kind # "account"
       THEN [err |-> "not account claim", claims |-> <<>>]
       ELSE r

\* natsjwt.DecodeUserClaims
DecodeUserClaims(token) ==
    LET r == Decode(token)
    IN IF r.err # "" THEN r
       ELSE IF r.claims.kind # "user"
       THEN [err |-> "not user claim", claims |-> <<>>]
       ELSE r

\* natsjwt.DecodeOperatorClaims
DecodeOperatorClaims(token) ==
    LET r == Decode(token)
    IN IF r.err # "" THEN r
       ELSE IF r.claims.kind # "operator"
       THEN [err |-> "not operator claim", claims |-> <<>>]
       ELSE r

-----------------------------------------------------------------------------
(* helpers.go *)

NoToken == <<>>

\* encodeDeterministic without the reset of IssuedAt and ID that follows the trial
\* encode: the payload keeps the wall-clock iat the library stamped
encodeDeterministic_NoReset(c, kp, t) ==
    LET cleared == [c EXCEPT !.jti = EmptyID]
        headerB64 == B64(MarshalHeader(JWTHeader))
        pub == kpPublicKey(kp)
        issued == [cleared EXCEPT !.iss = pub]
        trial == Encode(issued, kp, t)
    IN IF trial.err # ""
       THEN [err |-> "failed to run trial encode", jwt |-> NoToken]
       ELSE LET payloadB64 == B64(Marshal(trial.claims))
                toSign == <<headerB64, payloadB64>>
                sig == kpSign(kp, toSign)
            IN [err |-> "", jwt |-> <<headerB64, payloadB64, B64(sig)>>]

\* encodeDeterministic that signs the payload segment alone
encodeDeterministic_SignPayloadOnly(c, kp, t) ==
    LET issuedAt == c.iat
        cleared == [c EXCEPT !.jti = EmptyID]
        headerB64 == B64(MarshalHeader(JWTHeader))
        pub == kpPublicKey(kp)
        issued == [cleared EXCEPT !.iss = pub]
        trial == Encode(issued, kp, t)
    IN IF trial.err # ""
       THEN [err |-> "failed to run trial encode", jwt |-> NoToken]
       ELSE LET reset == [trial.claims EXCEPT !.iat = issuedAt, !.jti = EmptyID]
                payloadB64 == B64(Marshal(reset))
                sig == kpSign(kp, <<payloadB64>>)
            IN [err |-> "", jwt |-> <<headerB64, payloadB64, B64(sig)>>]

\* encodeDeterministic that restores IssuedAt after the trial encode and leaves
\* the ID the library computed
encodeDeterministic_KeepID(c, kp, t) ==
    LET issuedAt == c.iat
        cleared == [c EXCEPT !.jti = EmptyID]
        headerB64 == B64(MarshalHeader(JWTHeader))
        pub == kpPublicKey(kp)
        issued == [cleared EXCEPT !.iss = pub]
        trial == Encode(issued, kp, t)
    IN IF trial.err # ""
       THEN [err |-> "failed to run trial encode", jwt |-> NoToken]
       ELSE LET reset == [trial.claims EXCEPT !.iat = issuedAt]
                payloadB64 == B64(Marshal(reset))
                toSign == <<headerB64, payloadB64>>
                sig == kpSign(kp, toSign)
            IN [err |-> "", jwt |-> <<headerB64, payloadB64, B64(sig)>>]

\* the earlier encodeDeterministic(claims, kp): it calls claims.Encode(kp) and
\* drops what the call returns
encodeDeterministicEarlier(c, kp, t) ==
    LET issuedAt == c.iat
        cleared == [c EXCEPT !.jti = EmptyID]
        headerB64 == B64(MarshalHeader(JWTHeader))
        pub == kpPublicKey(kp)
        issued == [cleared EXCEPT !.iss = pub]
        trial == Encode(issued, kp, t)
        reset == [trial.claims EXCEPT !.iat = issuedAt, !.jti = EmptyID]
        payloadB64 == B64(Marshal(reset))
        toSign == <<headerB64, payloadB64>>
        sig == kpSign(kp, toSign)
    IN [err |-> "", jwt |-> <<headerB64, payloadB64, B64(sig)>>]

\* encodeDeterministic(claims, kp) run at wall-clock time t
encodeDeterministic(c, kp, t) ==
    LET issuedAt == c.iat
        cleared == [c EXCEPT !.jti = EmptyID]
        headerB64 == B64(MarshalHeader(JWTHeader))
        pub == kpPublicKey(kp)
        issued == [cleared EXCEPT !.iss = pub]
        trial == Encode(issued, kp, t)
    IN IF trial.err # ""
       THEN [err |-> "failed to run trial encode", jwt |-> NoToken]
       ELSE LET reset == [trial.claims EXCEPT !.iat = issuedAt, !.jti = EmptyID]
                payloadB64 == B64(Marshal(reset))
                toSign == <<headerB64, payloadB64>>
                sig == kpSign(kp, toSign)
            IN [err |-> "", jwt |-> <<headerB64, payloadB64, B64(sig)>>]

\* publicKeyFromSeed
publicKeyFromSeed(seed) ==
    LET kp == keypairFromSeed(seed)
    IN IF kp.err THEN [err |-> TRUE, pub |-> ""]
       ELSE [err |-> FALSE, pub |-> kpPublicKey(kp)]

\* applyTemporalClaimsDefaults; the operator and account Reads inline the same
\* statements
applyTemporalClaimsDefaults(c, issuedAt, expires, notBefore) ==
    LET iat == IF ~IsNull(issuedAt) THEN ValueInt64(issuedAt) ELSE 0
        exp == IF ~IsNull(expires) THEN ValueInt64(expires) ELSE c.exp
        nbf == IF ~IsNull(notBefore) THEN ValueInt64(notBefore) ELSE iat
    IN [c EXCEPT !.iat = iat, !.exp = exp, !.nbf = nbf]

\* natsjwt.ParseDecoratedJWT and natsjwt.ParseDecoratedUserNKey, as the acceptance
\* test of the creds attribute calls them: a credentials file is the token between
\* its markers followed by the seed between its markers
ParseDecoratedJWT(creds) ==
    IF Len(creds) >= 3 /\ creds[1] = "-----BEGIN NATS USER JWT-----"
                       /\ creds[3] = "------END NATS USER JWT------"
    THEN creds[2] ELSE NoToken
ParseDecoratedUserNKey(creds) ==
    IF Len(creds) = 6 /\ creds[4] = "-----BEGIN USER NKEY SEED-----"
                      /\ creds[6] = "------END USER NKEY SEED------"
    THEN creds[5] ELSE ""

-----------------------------------------------------------------------------
(* validators.go and the schemas *)

\* seedTypeValidator.ValidateString without the comparison of the seed's prefix
SeedTypeValidator_NoRoleCheck(expectedType, value) ==
    IF IsNull(value) THEN {}
    ELSE LET r == DecodeSeed(ValueString(value))
         IN IF r.err THEN {"Invalid NKey Seed"} ELSE {}

\* seedTypeValidator.ValidateString: the error summaries it adds
SeedTypeValidator(expectedType, value) ==
    IF IsNull(value) THEN {}
    ELSE LET r == DecodeSeed(ValueString(value))
         IN IF r.err THEN {"Invalid NKey Seed"}
            ELSE IF r.prefix # expectedType THEN {"Wrong NKey Seed Type"}
            ELSE {}

\* the attributes a schema declares; Terraform rejects a block that sets any other
OperatorSchemaAttributes ==
    {"seed", "issued_at", "expires", "not_before"}
AccountSchemaAttributes ==
    {"seed", "operator_seed", "issued_at", "expires", "not_before", "jetstream_limits"}
UserSchemaAttributes ==
    {"seed", "account_seed", "allowed_connection_types", "time_restrictions", "locale"}
ConfigHelperSchemaAttributes ==
    {"operator_jwt", "account_jwts", "system_account_jwt", "resolver_type"}

UnsupportedArguments(data, attributes) ==
    {<<a, "Unsupported argument">> :
        a \in {f \in DOMAIN data \ {"ds"} : ~IsNull(data[f])} \ attributes}

AttributeErrors(attribute, summaries) == {<<attribute, s>> : s \in summaries}

\* OperatorDataSource.Schema
ValidateOperator(data) ==
    UnsupportedArguments(data, OperatorSchemaAttributes)
    \cup AttributeErrors("seed", SeedTypeValidator("operator", data.seed))

\* accountSchemaAttributes without the validator of operator_seed
ValidateAccount_AnyOperatorSeed(data) ==
    UnsupportedArguments(data, AccountSchemaAttributes)
    \cup AttributeErrors("seed", SeedTypeValidator("account", data.seed))

\* accountSchemaAttributes
ValidateAccount(data) ==
    UnsupportedArguments(data, AccountSchemaAttributes)
    \cup AttributeErrors("seed", SeedTypeValidator("account", data.seed))
    \cup AttributeErrors("operator_seed", SeedTypeValidator("operator", data.operator_seed))

\* UserDataSource.Schema
ValidateUser(data) ==
    UnsupportedArguments(data, UserSchemaAttributes)
    \cup AttributeErrors("seed", SeedTypeValidator("user", data.seed))
    \cup AttributeErrors("account_seed", SeedTypeValidator("account", data.account_seed))

\* ConfigHelperDataSource.Schema
ValidateConfigHelper(data) ==
    UnsupportedArguments(data, ConfigHelperSchemaAttributes)

-----------------------------------------------------------------------------
(* the data sources *)

\* an error added without the return that follows it: Read goes on to State.Set
Failed_NoReturn(summary) == [diags |-> {<<"", summary>>}, state |-> [written |-> TRUE]]
Failed(summary) == [diags |-> {<<"", summary>>}, state |-> NoState]
Written(fields) == [diags |-> NoDiags, state |-> fields]

\* OperatorDataSource.Read
OperatorReadResult(data, t) ==
    LET kp == keypairFromSeed(ValueString(data.seed))
    IN IF kp.err THEN Failed("Invalid Seed")
       ELSE LET pub == kpPublicKey(kp)
                c == applyTemporalClaimsDefaults(NewOperatorClaims(pub),
                         data.issued_at, data.expires, data.not_before)
                enc == encodeDeterministic(c, kp, t)
            IN IF enc.err # "" THEN Failed("JWT Encoding Error")
               ELSE Written([written |-> TRUE, public_key |-> pub, jwt |-> enc.jwt])

\* the limit record buildAccountClaims makes of one jetstream_limits block
JetStreamLimitOf(jsl) ==
    [mem_storage |-> IF ~IsNull(jsl.mem_storage) THEN ValueInt64(jsl.mem_storage) ELSE 0,
     disk_storage |-> IF ~IsNull(jsl.disk_storage) THEN ValueInt64(jsl.disk_storage) ELSE 0,
     streams |-> IF ~IsNull(jsl.streams) THEN ValueInt64(jsl.streams) ELSE -1,
     consumer |-> IF ~IsNull(jsl.consumer) THEN ValueInt64(jsl.consumer) ELSE -1,
     max_ack_pending |-> IF ~IsNull(jsl.max_ack_pending)
                         THEN ValueInt64(jsl.max_ack_pending) ELSE -1,
     mem_max_stream_bytes |-> IF ~IsNull(jsl.mem_max_stream_bytes)
                              THEN ValueInt64(jsl.mem_max_stream_bytes) ELSE 0,
     disk_max_stream_bytes |-> IF ~IsNull(jsl.disk_max_stream_bytes)
                               THEN ValueInt64(jsl.disk_max_stream_bytes) ELSE 0,
     max_bytes_required |-> IF ~IsNull(jsl.max_bytes_required)
                            THEN ValueBool(jsl.max_bytes_required) ELSE FALSE]

\* the loop's pass writing a labelled block to the global record as well
PlaceJetStreamLimit_AlsoGlobal(c, jsl) ==
    LET limit == JetStreamLimitOf(jsl)
        tier == ValueString(jsl.tier)
    IN IF tier = "" \/ IsNull(jsl.tier)
       THEN [c EXCEPT !.js = limit]
       ELSE [c EXCEPT !.js = limit, !.tiered = Put(c.tiered, tier, limit)]

\* the loop's pass keeping the global record once a block has set it
PlaceJetStreamLimit_FirstGlobalWins(c, jsl) ==
    LET limit == JetStreamLimitOf(jsl)
        tier == ValueString(jsl.tier)
    IN IF tier = "" \/ IsNull(jsl.tier)
       THEN IF c.js = ZeroJetStreamLimits THEN [c EXCEPT !.js = limit] ELSE c
       ELSE [c EXCEPT !.tiered = Put(c.tiered, tier, limit)]

\* one pass of buildAccountClaims' loop over the jetstream_limits blocks
PlaceJetStreamLimit(c, jsl) ==
    LET limit == JetStreamLimitOf(jsl)
        tier == ValueString(jsl.tier)
    IN IF tier = "" \/ IsNull(jsl.tier)
       THEN [c EXCEPT !.js = limit]
       ELSE [c EXCEPT !.tiered = Put(c.tiered, tier, limit)]

RECURSIVE PlaceJetStreamLimits(_, _)
PlaceJetStreamLimits(c, jsLimits) ==
    IF jsLimits = <<>> THEN c
    ELSE PlaceJetStreamLimits(PlaceJetStreamLimit(c, Head(jsLimits)), Tail(jsLimits))

\* buildAccountClaims
buildAccountClaims(data) ==
    LET accountKP == keypairFromSeed(ValueString(data.seed))
    IN IF accountKP.err
       THEN [err |-> TRUE, diags |-> {<<"", "Invalid Account Seed">>},
             claims |-> <<>>, pub |-> ""]
       ELSE LET pub == kpPublicKey(accountKP)
                c == applyTemporalClaimsDefaults(NewAccountClaims(pub),
                         data.issued_at, data.expires, data.not_before)
                withJS == IF ~IsNull(data.jetstream_limits)
                          THEN PlaceJetStreamLimits(c, data.jetstream_limits[1])
                          ELSE c
            IN [err |-> FALSE, diags |-> NoDiags, claims |-> withJS, pub |-> pub]

\* AccountDataSource.Read signing with the account's own seed
AccountReadResult_SelfSigned(data, t) ==
    LET built == buildAccountClaims(data)
    IN IF built.err \/ HasError(built.diags)
       THEN [diags |-> built.diags, state |-> NoState]
       ELSE LET operatorKP == keypairFromSeed(ValueString(data.seed))
            IN IF operatorKP.err THEN Failed("Invalid Operator Seed")
               ELSE LET enc == encodeDeterministic(built.claims, operatorKP, t)
                    IN IF enc.err # "" THEN Failed("JWT Encoding Error")
                       ELSE Written([written |-> TRUE, public_key |-> built.pub,
                                     jwt |-> enc.jwt])

\* AccountDataSource.Read
AccountReadResult(data, t) ==
    LET built == buildAccountClaims(data)
    IN IF built.err \/ HasError(built.diags)
       THEN [diags |-> built.diags, state |-> NoState]
       ELSE LET operatorKP == keypairFromSeed(ValueString(data.operator_seed))
            IN IF operatorKP.err THEN Failed("Invalid Operator Seed")
               ELSE LET enc == encodeDeterministic(built.claims, operatorKP, t)
                    IN IF enc.err # "" THEN Failed("JWT Encoding Error")
                       ELSE Written([written |-> TRUE, public_key |-> built.pub,
                                     jwt |-> enc.jwt])

\* the two exports applySystemAccountDefaults appends
MonitoringServicesExport ==
    [name |-> "account-monitoring-services", subject |-> "$SYS.REQ.ACCOUNT.*.*",
     type |-> "service", response_type |-> "Singleton", account_token_position |-> 4]
MonitoringStreamsExport ==
    [name |-> "account-monitoring-streams", subject |-> "$SYS.ACCOUNT.*.>",
     type |-> "stream", response_type |-> "", account_token_position |-> 3]

\* applySystemAccountDefaults appending the service export only
applySystemAccountDefaults_ServiceOnly(c) ==
    LET hasSysExport == \E i \in 1..Len(c.exports) : c.exports[i].subject = "$SYS.>"
    IN IF ~hasSysExport
       THEN [c EXCEPT !.exports = Append(c.exports, MonitoringServicesExport)]
       ELSE c

\* applySystemAccountDefaults
applySystemAccountDefaults(c) ==
    LET hasSysExport == \E i \in 1..Len(c.exports) : c.exports[i].subject = "$SYS.>"
    IN IF ~hasSysExport
       THEN [c EXCEPT !.exports =
                 Append(Append(c.exports, MonitoringServicesExport),
                        MonitoringStreamsExport)]
       ELSE c

\* SystemAccountDataSource.Read applying the default-export step a second time to
\* the claims the first application returned
SystemAccountReadResult_AppliedTwice(data, t) ==
    LET built == buildAccountClaims(data)
    IN IF built.err \/ HasError(built.diags)
       THEN [diags |-> built.diags, state |-> NoState]
       ELSE LET c == applySystemAccountDefaults(applySystemAccountDefaults(built.claims))
                operatorKP == keypairFromSeed(ValueString(data.operator_seed))
            IN IF operatorKP.err THEN Failed("Invalid Operator Seed")
               ELSE LET enc == encodeDeterministic(c, operatorKP, t)
                    IN IF enc.err # "" THEN Failed("JWT Encoding Error")
                       ELSE Written([written |-> TRUE, public_key |-> built.pub,
                                     jwt |-> enc.jwt])

\* SystemAccountDataSource.Read
SystemAccountReadResult(data, t) ==
    LET built == buildAccountClaims(data)
    IN IF built.err \/ HasError(built.diags)
       THEN [diags |-> built.diags, state |-> NoState]
       ELSE LET c == applySystemAccountDefaults(built.claims)
                operatorKP == keypairFromSeed(ValueString(data.operator_seed))
            IN IF operatorKP.err THEN Failed("Invalid Operator Seed")
               ELSE LET enc == encodeDeterministic(c, operatorKP, t)
                    IN IF enc.err # "" THEN Failed("JWT Encoding Error")
                       ELSE Written([written |-> TRUE, public_key |-> built.pub,
                                     jwt |-> enc.jwt])

\* UserDataSource.Read
UserReadResult(data, t) ==
    LET userKP == keypairFromSeed(ValueString(data.seed))
    IN IF userKP.err THEN Failed("Invalid User Seed")
       ELSE LET userPub == kpPublicKey(userKP)
                accountKP == keypairFromSeed(ValueString(data.account_seed))
            IN IF accountKP.err THEN Failed("Invalid Account Seed")
               ELSE LET c0 == NewUserClaims(userPub)
                        c1 == IF ~IsNull(data.allowed_connection_types)
                              THEN [c0 EXCEPT !.allowed_connection_types =
                                       data.allowed_connection_types[1]]
                              ELSE c0
                        c2 == IF ~IsNull(data.time_restrictions)
                              THEN [c1 EXCEPT !.times =
                                       c1.times \o data.time_restrictions[1]]
                              ELSE c1
                        c3 == IF ~IsNull(data.locale)
                              THEN [c2 EXCEPT !.locale = ValueString(data.locale)]
                              ELSE c2
                        enc == encodeDeterministic(c3, accountKP, t)
                    IN IF enc.err # "" THEN Failed("JWT Encoding Error")
                       ELSE Written([written |-> TRUE, public_key |-> userPub,
                                     jwt |-> enc.jwt])

RECURSIVE PreloadAccounts_ByIssuer(_, _)
\* the loop over account_jwts keying each token by its issuer
PreloadAccounts_ByIssuer(preload, accountJWTs) ==
    IF accountJWTs = <<>> THEN [err |-> FALSE, preload |-> preload]
    ELSE LET jwt == Head(accountJWTs)
             acct == DecodeAccountClaims(jwt)
         IN IF acct.err # "" THEN [err |-> TRUE, preload |-> preload]
            ELSE PreloadAccounts_ByIssuer(Put(preload, acct.claims.iss, jwt),
                                          Tail(accountJWTs))

RECURSIVE PreloadAccounts_SkipInvalid(_, _)
\* the loop over account_jwts leaving out the tokens that do not decode
PreloadAccounts_SkipInvalid(preload, accountJWTs) ==
    IF accountJWTs = <<>> THEN [err |-> FALSE, preload |-> preload]
    ELSE LET jwt == Head(accountJWTs)
             acct == DecodeAccountClaims(jwt)
         IN IF acct.err # "" THEN PreloadAccounts_SkipInvalid(preload, Tail(accountJWTs))
            ELSE PreloadAccounts_SkipInvalid(Put(preload, acct.claims.sub, jwt),
                                             Tail(accountJWTs))

RECURSIVE PreloadAccounts(_, _)
\* ConfigHelperDataSource.Read: the loop over account_jwts
PreloadAccounts(preload, accountJWTs) ==
    IF accountJWTs = <<>> THEN [err |-> FALSE, preload |-> preload]
    ELSE LET jwt == Head(accountJWTs)
             acct == DecodeAccountClaims(jwt)
         IN IF acct.err # "" THEN [err |-> TRUE, preload |-> preload]
            ELSE PreloadAccounts(Put(preload, acct.claims.sub, jwt), Tail(accountJWTs))

\* ConfigHelperDataSource.Read up to the preload map, without the resolver check
ConfigHelperPreload_AnyResolver(data) ==
    LET resolverType == IF ~IsNull(data.resolver_type)
                        THEN ValueString(data.resolver_type) ELSE "MEMORY"
        none == [summary |-> "", resolverType |-> resolverType,
                 systemAccountPub |-> "", preload |-> EmptyMap]
        hasSys == ~IsNull(data.system_account_jwt)
        sysJWT == IF hasSys THEN data.system_account_jwt[1] ELSE NoToken
        sysClaims == DecodeAccountClaims(sysJWT)
    IN IF hasSys /\ sysClaims.err # ""
       THEN [none EXCEPT !.summary = "Invalid System Account JWT"]
       ELSE LET systemAccountPub == IF hasSys THEN sysClaims.claims.sub ELSE ""
                preload0 == IF hasSys
                            THEN Put(EmptyMap, systemAccountPub, sysJWT)
                            ELSE EmptyMap
                accts == IF ~IsNull(data.account_jwts)
                         THEN PreloadAccounts(preload0, data.account_jwts[1])
                         ELSE [err |-> FALSE, preload |-> preload0]
            IN IF accts.err
               THEN [none EXCEPT !.summary = "Invalid Account JWT"]
               ELSE [none EXCEPT !.systemAccountPub = systemAccountPub,
                                 !.preload = accts.preload]

\* ConfigHelperDataSource.Read up to the preload map:
\* [summary, resolverType, systemAccountPub, preload], summary "" when no error
ConfigHelperPreload(data) ==
    LET resolverType == IF ~IsNull(data.resolver_type)
                        THEN ValueString(data.resolver_type) ELSE "MEMORY"
        none == [summary |-> "", resolverType |-> resolverType,
                 systemAccountPub |-> "", preload |-> EmptyMap]
    IN IF resolverType # "MEMORY"
       THEN [none EXCEPT !.summary = "Unsupported Resolver Type"]
       ELSE LET hasSys == ~IsNull(data.system_account_jwt)
                sysJWT == IF hasSys THEN data.system_account_jwt[1] ELSE NoToken
                sysClaims == DecodeAccountClaims(sysJWT)
            IN IF hasSys /\ sysClaims.err # ""
               THEN [none EXCEPT !.summary = "Invalid System Account JWT"]
               ELSE LET systemAccountPub == IF hasSys THEN sysClaims.claims.sub ELSE ""
                        preload0 == IF hasSys
                                    THEN Put(EmptyMap, systemAccountPub, sysJWT)
                                    ELSE EmptyMap
                        accts == IF ~IsNull(data.account_jwts)
                                 THEN PreloadAccounts(preload0, data.account_jwts[1])
                                 ELSE [err |-> FALSE, preload |-> preload0]
                    IN IF accts.err
                       THEN [none EXCEPT !.summary = "Invalid Account JWT"]
                       ELSE [none EXCEPT !.systemAccountPub = systemAccountPub,
                                         !.preload = accts.preload]

\* the orders in which Go may range over a map with these keys
MapOrders(keys) ==
    {o \in [1..Cardinality(keys) -> keys] :
        \A i, j \in 1..Cardinality(keys) : i # j => o[i] # o[j]}

\* the server config with the resolver line written before the system_account line
RenderServerConfig_ResolverFirst(operatorJWT, systemAccountPub, resolverType, preload, order) ==
    << <<"operator: ", operatorJWT>> >>
    \o << <<"resolver: ", resolverType>> >>
    \o (IF systemAccountPub # ""
        THEN << <<"system_account: ", systemAccountPub>> >> ELSE <<>>)
    \o (IF Cardinality(DOMAIN preload) > 0
        THEN << <<"resolver_preload: {">> >>
             \o [i \in 1..Len(order) |-> <<"  ", order[i], ": ", preload[order[i]]>>]
             \o << <<"}">> >>
        ELSE <<>>)

\* ConfigHelperDataSource.Read: the server config, one element per line
RenderServerConfig(operatorJWT, systemAccountPub, resolverType, preload, order) ==
    << <<"operator: ", operatorJWT>> >>
    \o (IF systemAccountPub # ""
        THEN << <<"system_account: ", systemAccountPub>> >> ELSE <<>>)
    \o << <<"resolver: ", resolverType>> >>
    \o (IF Cardinality(DOMAIN preload) > 0
        THEN << <<"resolver_preload: {">> >>
             \o [i \in 1..Len(order) |-> <<"  ", order[i], ": ", preload[order[i]]>>]
             \o << <<"}">> >>
        ELSE <<>>)

\* ConfigHelperDataSource.Read, ranging over the preload map in the given order
ConfigHelperReadResult(data, order) ==
    LET p == ConfigHelperPreload(data)
        operatorJWT == data.operator_jwt[1]
    IN IF p.summary # "" THEN Failed(p.summary)
       ELSE Written([written |-> TRUE,
                     server_config |-> RenderServerConfig(operatorJWT,
                         p.systemAccountPub, p.resolverType, p.preload, order),
                     operator |-> operatorJWT,
                     system_account |-> p.systemAccountPub,
                     resolver |-> p.resolverType,
                     resolver_preload |-> p.preload])

-----------------------------------------------------------------------------
(* the configurations a run may hold *)

OptTimes == {Null, Some(0), Some(5), Some(9)}
SeedValues == {Some(s) : s \in Seeds}

OperatorConfigs ==
    [ds : {"operator"}, seed : SeedValues,
     issued_at : OptTimes, expires : OptTimes, not_before : OptTimes]

JetStreamBlock(tier, streams, mem) ==
    [tier |-> tier, mem_storage |-> mem, disk_storage |-> Null, streams |-> streams,
     consumer |-> Null, max_ack_pending |-> Null, mem_max_stream_bytes |-> Null,
     disk_max_stream_bytes |-> Null, max_bytes_required |-> Null]

JetStreamBlocks ==
    {JetStreamBlock(tier, sm[1], sm[2]) :
        tier \in {Null, Some(""), Some("R1"), Some("R3")},
        sm \in {<<Null, Null>>, <<Some(5), Some(1024)>>, <<Some(10), Null>>}}

AccountConfig(ds, seed, operatorSeed, issuedAt, expires, notBefore, js) ==
    [ds |-> ds, seed |-> seed, operator_seed |-> operatorSeed, issued_at |-> issuedAt,
     expires |-> expires, not_before |-> notBefore, jetstream_limits |-> js]

AccountConfigsOf(ds) ==
    {AccountConfig(ds, s, o, Null, Null, Null, Null) : s \in SeedValues, o \in SeedValues}
    \cup {AccountConfig(ds, Some("SA1"), Some("SO1"), i, e, n, Null) :
              i \in OptTimes, e \in OptTimes, n \in OptTimes}
    \cup {AccountConfig(ds, Some("SA1"), Some("SO1"), Null, Null, Null, Some(js)) :
              js \in SeqsUpTo(JetStreamBlocks, MaxBlocks)}

UserConfig(seed, accountSeed, issuedAt, expires, notBefore) ==
    [ds |-> "user", seed |-> seed, account_seed |-> accountSeed, issued_at |-> issuedAt,
     expires |-> expires, not_before |-> notBefore,
     allowed_connection_types |-> Null, time_restrictions |-> Null, locale |-> Null]

\* values of allowed_connection_types, time_restrictions and locale
ConnectionTypeValues == {"STANDARD", "WEBSOCKET", "LEAFNODE", "MQTT", "BOGUS"}
TimeRange(start, end) == [start |-> start, end |-> end]
TimeRestrictionValues ==
    {Null, Some(<<>>), Some(<<TimeRange("08:00:00", "17:00:00")>>),
     Some(<<TimeRange("08:00:00", "12:00:00"), TimeRange("13:00:00", "17:00:00")>>)}
LocaleValues == {Null, Some("America/New_York")}

UserConfigs ==
    {UserConfig(s, a, Null, Null, Null) : s \in SeedValues, a \in SeedValues}
    \cup {UserConfig(Some("SU1"), Some("SA1"), i, e, n) :
              i \in OptTimes, e \in OptTimes, n \in OptTimes}
    \cup {[UserConfig(Some("SU1"), Some("SA1"), Null, Null, Null)
               EXCEPT !.allowed_connection_types = ct,
                      !.time_restrictions = tr,
                      !.locale = l] :
              ct \in {Null} \cup {Some(l) : l \in SeqsUpTo(ConnectionTypeValues, MaxTypes)},
              tr \in TimeRestrictionValues,
              l \in LocaleValues}

GarbageToken == <<"garbage">>

OperatorToken ==
    OperatorReadResult([ds |-> "operator", seed |-> Some("SO1"), issued_at |-> Null,
                        expires |-> Null, not_before |-> Null], 1000).state.jwt

\* the tokens a config helper block may be given
AccountTokenPool ==
    {AccountReadResult(AccountConfig("account", Some(s), Some("SO1"), Null, Null, Null, Null),
                       1000).state.jwt : s \in {"SA1", "SA2", "SA3"}}
    \cup {AccountReadResult(
              AccountConfig("account", Some("SA1"), Some("SO1"), Some(5), Null, Null, Null),
              1000).state.jwt}
    \cup {GarbageToken}

SystemAccountToken ==
    SystemAccountReadResult(
        AccountConfig("system_account", Some("SA1"), Some("SO1"), Null, Null, Null, Null),
        1000).state.jwt

UserToken ==
    UserReadResult(UserConfig(Some("SU1"), Some("SA1"), Null, Null, Null), 1000).state.jwt

SystemTokenPool ==
    {SystemAccountToken, UserToken, GarbageToken,
     AccountReadResult(AccountConfig("account", Some("SA1"), Some("SO1"), Null, Null, Null, Null),
                       1000).state.jwt}

ConfigHelperConfig(systemAccountJWT, accountJWTs, resolverType) ==
    [ds |-> "config_helper", operator_jwt |-> Some(OperatorToken),
     system_account_jwt |-> systemAccountJWT, account_jwts |-> accountJWTs,
     resolver_type |-> resolverType]

ConfigHelperConfigs ==
    {ConfigHelperConfig(sys, Some(l), Null) :
        sys \in {Null} \cup {Some(tk) : tk \in SystemTokenPool},
        l \in SeqsUpTo(AccountTokenPool, MaxTokens)}
    \cup {ConfigHelperConfig(sys, accts, r) :
              sys \in {Null, Some(SystemAccountToken)},
              accts \in {Null} \cup {Some(<<tk>>) : tk \in SystemTokenPool},
              r \in {Null, Some("MEMORY"), Some("URL"), Some("memory"), Some("")}}

Configs ==
    OperatorConfigs \cup AccountConfigsOf("account") \cup AccountConfigsOf("system_account")
    \cup UserConfigs \cup ConfigHelperConfigs

-----------------------------------------------------------------------------
(* Terraform refreshing one data block *)

Init ==
    /\ cfg \in Configs
    /\ now = 1000
    /\ reads = 0
    /\ diags = NoDiags
    /\ state = NoState
    /\ prior = NoState
    /\ call = NoCall
    /\ created = Null

\* a refresh ends with the result r: its diagnostics, and the state it wrote;
\* the wall clock has moved on by the time of the next refresh
Refresh(r) ==
    /\ reads < MaxReads
    /\ reads' = reads + 1
    /\ prior' = state
    /\ diags' = r.diags
    /\ state' = r.state
    /\ now' = now + 1
    /\ UNCHANGED <<cfg, call, created>>

Rejected(d) == [diags |-> d, state |-> NoState]

OperatorRead ==
    /\ cfg.ds = "operator"
    /\ Refresh(IF HasError(ValidateOperator(cfg)) THEN Rejected(ValidateOperator(cfg))
               ELSE OperatorReadResult(cfg, now))

AccountRead ==
    /\ cfg.ds = "account"
    /\ Refresh(IF HasError(ValidateAccount(cfg)) THEN Rejected(ValidateAccount(cfg))
               ELSE AccountReadResult(cfg, now))

SystemAccountRead ==
    /\ cfg.ds = "system_account"
    /\ Refresh(IF HasError(ValidateAccount(cfg)) THEN Rejected(ValidateAccount(cfg))
               ELSE SystemAccountReadResult(cfg, now))

UserRead ==
    /\ cfg.ds = "user"
    /\ Refresh(IF HasError(ValidateUser(cfg)) THEN Rejected(ValidateUser(cfg))
               ELSE UserReadResult(cfg, now))

ConfigHelperRead ==
    /\ cfg.ds = "config_helper"
    /\ IF HasError(ValidateConfigHelper(cfg))
       THEN Refresh(Rejected(ValidateConfigHelper(cfg)))
       ELSE \E order \in MapOrders(DOMAIN ConfigHelperPreload(cfg).preload) :
                Refresh(ConfigHelperReadResult(cfg, order))

Next ==
    \/ OperatorRead
    \/ AccountRead
    \/ SystemAccountRead
    \/ UserRead
    \/ ConfigHelperRead

Spec == Init /\ [][Next]_vars

-----------------------------------------------------------------------------
(* The nkey resource and the seed_public_key function *)

MaxOps == 4

NkeyTypes == {"operator", "account", "user"}

\* prefixByteFromType with a switch whose every case returns the account prefix
prefixByteFromType_AlwaysAccount(keyType) ==
    IF keyType \in NkeyTypes
    THEN [err |-> FALSE, prefix |-> "account"]
    ELSE [err |-> TRUE, prefix |-> "unknown"]

\* prefixByteFromType
prefixByteFromType(keyType) ==
    IF keyType \in NkeyTypes
    THEN [err |-> FALSE, prefix |-> keyType]
    ELSE [err |-> TRUE, prefix |-> "unknown"]

\* nkeys.CreatePair that ignores the prefix it is given
CreatePair_AnyRole(prefix) == ValidSeeds

\* nkeys.CreatePair(prefix): the seeds a freshly generated pair of that role
\* can have
CreatePair(prefix) == {s \in ValidSeeds : KeyTable[s].prefix = prefix}

\* nkeyTypeValidator.ValidateString: the error summaries it adds
NkeyTypeValidator(value) ==
    IF IsNull(value) THEN {}
    ELSE IF ValueString(value) \in NkeyTypes THEN {}
    ELSE {"Invalid NKey Type"}

\* NkeyResource.Schema: type is required and validated
ValidateNkey(data) ==
    (IF IsNull(data.type) THEN {<<"type", "Missing required argument">>} ELSE {})
    \cup AttributeErrors("type", NkeyTypeValidator(data.type))

\* NkeyResource.Create: every result the call can end with
NkeyCreateResults(data) ==
    LET p == prefixByteFromType(ValueString(data.type))
    IN IF p.err THEN {Failed("Invalid Key Type")}
       ELSE {Written([written |-> TRUE, keepers |-> data.keepers, type |-> data.type,
                      seed |-> Some(seed),
                      public_key |-> Some(kpPublicKey(keypairFromSeed(seed)))]) :
                seed \in CreatePair(p.prefix)}

\* NkeyResource.Read that reports the seed it cannot parse
NkeyReadResult_AddError(data) ==
    LET kp == keypairFromSeed(ValueString(data.seed))
    IN IF kp.err THEN Failed("Invalid Seed")
       ELSE Written([data EXCEPT !.public_key = Some(kpPublicKey(kp))])

\* NkeyResource.Read
NkeyReadResult(data) ==
    LET kp == keypairFromSeed(ValueString(data.seed))
    IN IF kp.err THEN [diags |-> NoDiags, state |-> NoState]
       ELSE Written([data EXCEPT !.public_key = Some(kpPublicKey(kp))])

\* seedPublicKeyFunction.Run that sets the result before it looks at the error
seedPublicKeyRun_ResultOnError(seed) ==
    LET r == publicKeyFromSeed(seed)
    IN IF r.err THEN [error |-> Some("failed to convert seed to public key"),
                      result |-> Some(r.pub)]
       ELSE [error |-> Null, result |-> Some(r.pub)]

\* seedPublicKeyFunction.Run
seedPublicKeyRun(seed) ==
    LET r == publicKeyFromSeed(seed)
    IN IF r.err THEN [error |-> Some("failed to convert seed to public key"),
                      result |-> Null]
       ELSE [error |-> Null, result |-> Some(r.pub)]

\* a value of the plugin framework that is known only after apply
Unknown == <<"unknown", "unknown">>
IsUnknown(x) == x = Unknown

\* a keepers plan modifier that asks for replacement on every change
PlanModifyMap_AnyChange(stateValue, planValue) ==
    IF IsNull(stateValue) THEN FALSE
    ELSE IF IsNull(planValue) \/ IsUnknown(planValue) THEN FALSE
    ELSE planValue # stateValue

\* requiresReplaceIfValuesNotNull.PlanModifyMap: whether it sets RequiresReplace
PlanModifyMap(stateValue, planValue) ==
    IF IsNull(stateValue) THEN FALSE
    ELSE IF IsNull(planValue) \/ IsUnknown(planValue) THEN FALSE
    ELSE LET stateKeepers == stateValue[1]
             planKeepers == planValue[1]
         IN \/ \E key \in DOMAIN planKeepers :
                   /\ key \in DOMAIN stateKeepers
                   /\ ~IsNull(stateKeepers[key])
                   /\ planKeepers[key] # stateKeepers[key]
            \/ \E key \in DOMAIN stateKeepers :
                   /\ key \notin DOMAIN planKeepers
                   /\ ~IsNull(stateKeepers[key])

\* stringplanmodifier.RequiresReplace on type
RequiresReplace(stateValue, planValue) == planValue # stateValue

\* stringplanmodifier.UseStateForUnknown on seed and public_key
UseStateForUnknown(stateValue, planValue) ==
    IF IsNull(stateValue) THEN planValue
    ELSE IF ~IsUnknown(planValue) THEN planValue
    ELSE stateValue

\* NkeyResource.Schema: the plan of a configuration against the stored state,
\* and whether a plan modifier asks for replacement
NkeyPlanResult(config, st) ==
    [keepers |-> config.keepers,
     type |-> config.type,
     seed |-> UseStateForUnknown(st.seed, Unknown),
     public_key |-> UseStateForUnknown(st.public_key, Unknown),
     requires_replace |-> \/ RequiresReplace(st.type, config.type)
                          \/ PlanModifyMap(st.keepers, config.keepers)]

\* NkeyResource.Update that stores the plan as it is
NkeyUpdateResult_FromPlan(plan, st) ==
    Written([written |-> TRUE, keepers |-> plan.keepers, type |-> plan.type,
             seed |-> plan.seed, public_key |-> plan.public_key])

\* NkeyResource.Update
NkeyUpdateResult(plan, st) ==
    Written([written |-> TRUE, keepers |-> plan.keepers, type |-> plan.type,
             seed |-> st.seed, public_key |-> st.public_key])

\* the resource blocks and the function arguments of the model
KeeperKeys == {"k1", "k2"}
KeeperValues == {Null, Some("a"), Some("b")}
KeepersValues ==
    {Null} \cup {Some(m) : m \in UNION {[K -> KeeperValues] : K \in SUBSET KeeperKeys}}
NkeyTypeValues == {Some(t) : t \in NkeyTypes \cup {"server", ""}} \cup {Null}
\* the keepers of the blocks whose life the model follows: none, one key with
\* either value, and a second key beside it
BlockKeepers ==
    {Null, Some([k1 |-> Some("a")]), Some([k1 |-> Some("b")]),
     Some([k1 |-> Some("a"), k2 |-> Some("a")])}
NkeyConfigs == [ds : {"nkey"}, type : NkeyTypeValues, keepers : BlockKeepers]
FunctionArguments == Seeds \cup {""}

\* a state file that earlier runs left behind: its seed may have been damaged
\* and its public key may be stale
StoredStates ==
    {[written |-> TRUE, keepers |-> Null, type |-> Some("account"),
      seed |-> seed, public_key |-> pub] :
        seed \in {Some("SA1"), Some("garbage"), Null},
        pub \in {Some("A1"), Some("A2")}}

InitKeys ==
    /\ \/ cfg \in NkeyConfigs /\ state = NoState
       \/ /\ state \in StoredStates
          /\ cfg = [ds |-> "nkey", type |-> state.type, keepers |-> state.keepers]
    /\ now = 1000
    /\ reads = 0
    /\ diags = NoDiags
    /\ prior = NoState
    /\ call = NoCall
    /\ created = Null

\* one call served: the call, the block it was served for, and the diagnostics
\* and resource state it ends with
ServedCall(c, config, r) ==
    /\ reads < MaxOps
    /\ reads' = reads + 1
    /\ cfg' = config
    /\ prior' = state
    /\ diags' = r.diags
    /\ state' = r.state
    /\ call' = c
    /\ created' = IF c.rpc = "Create" /\ r.state.written
                  THEN r.state.seed ELSE created
    /\ UNCHANGED <<now>>

Served(rpc, r) == ServedCall([rpc |-> rpc], cfg, r)

\* terraform apply on a block that has no state: validation, then Create
NkeyCreate ==
    /\ ~state.written
    /\ IF HasError(ValidateNkey(cfg))
       THEN Served("Create", Rejected(ValidateNkey(cfg)))
       ELSE \E r \in NkeyCreateResults(cfg) : Served("Create", r)

\* terraform refresh on a block that has state
NkeyRead ==
    /\ state.written
    /\ Served("Read", NkeyReadResult(state))

\* terraform destroy, or the first call of a replacement: Delete does nothing
\* and the framework drops the state
NkeyDelete ==
    /\ state.written
    /\ Served("Delete", [diags |-> NoDiags, state |-> NoState])

\* terraform plans an edited block that has state: validation, then the plan
\* with its plan modifiers; nothing is stored
NkeyPlan ==
    /\ state.written
    /\ \E config \in NkeyConfigs :
           /\ config.type # state.type \/ config.keepers # state.keepers
           /\ IF HasError(ValidateNkey(config))
              THEN ServedCall([rpc |-> "Validate", config |-> config], config,
                              [diags |-> ValidateNkey(config), state |-> state])
              ELSE ServedCall([rpc |-> "Plan", plan |-> NkeyPlanResult(config, state)],
                              config, [diags |-> NoDiags, state |-> state])

\* terraform applies a plan that asks for no replacement: Update.  A plan
\* that asks for replacement is applied by Delete and, as a call of its own,
\* Create on the block left without state.
NkeyUpdate ==
    /\ state.written
    /\ call.rpc = "Plan"
    /\ ~call.plan.requires_replace
    /\ ServedCall([rpc |-> "Update", plan |-> call.plan], cfg,
                  NkeyUpdateResult(call.plan, state))

\* an expression of the configuration calls provider::natsjwt::seed_public_key
SeedPublicKeyCall ==
    /\ reads < MaxOps
    /\ reads' = reads + 1
    /\ \E seed \in FunctionArguments :
           LET r == seedPublicKeyRun(seed)
           IN call' = [rpc |-> "CallFunction", argument |-> seed,
                       error |-> r.error, result |-> r.result]
    /\ UNCHANGED <<cfg, now, diags, state, prior, created>>

NextKeys ==
    \/ NkeyCreate
    \/ NkeyRead
    \/ NkeyDelete
    \/ NkeyPlan
    \/ NkeyUpdate
    \/ SeedPublicKeyCall

SpecKeys == InitKeys /\ [][NextKeys]_vars

-----------------------------------------------------------------------------
(* The keepers plan modifier on its own, over any stored and planned keepers *)

InitPlan ==
    /\ cfg \in [ds : {"keepers"}, state_value : KeepersValues,
                plan_value : KeepersValues \cup {Unknown}]
    /\ now = 1000
    /\ reads = 0
    /\ diags = NoDiags
    /\ state = NoState
    /\ prior = NoState
    /\ call = NoCall
    /\ created = Null

KeepersPlan ==
    /\ reads = 0
    /\ reads' = 1
    /\ call' = [rpc |-> "PlanModifyMap",
                requires_replace |-> PlanModifyMap(cfg.state_value, cfg.plan_value)]
    /\ UNCHANGED <<cfg, now, diags, state, prior, created>>

NextPlan == KeepersPlan

SpecPlan == InitPlan /\ [][NextPlan]_vars

-----------------------------------------------------------------------------
(* encodeDeterministic on its own, over any claims and any signer *)

\* the claims a caller can hand over: any kind, a subject of any role, an
\* issued-at of its choice and an identifier a former encode may have left
StaleID == <<"hash", "stale">>
SignSubjects == {"O1", "A1", "U1"}
SignClaims ==
    {[k EXCEPT !.iat = iat, !.jti = id] :
        k \in {NewOperatorClaims(sub) : sub \in SignSubjects}
              \cup {NewAccountClaims(sub) : sub \in SignSubjects}
              \cup {NewUserClaims(sub) : sub \in SignSubjects},
        iat \in {0, 5},
        id \in {EmptyID, StaleID}}

\* helpers.go is present in two revisions; a build holds one of them
HelperRevisions == {"current", "earlier"}

InitSign ==
    /\ cfg \in [ds : {"sign"}, revision : HelperRevisions, claims : SignClaims,
                signer : ValidSeeds]
    /\ now \in {1000, 2000}
    /\ reads = 0
    /\ diags = NoDiags
    /\ state = NoState
    /\ prior = NoState
    /\ call = NoCall
    /\ created = Null

Sign ==
    /\ reads = 0
    /\ reads' = 1
    /\ LET kp == keypairFromSeed(cfg.signer)
           r == IF cfg.revision = "current"
                THEN encodeDeterministic(cfg.claims, kp, now)
                ELSE encodeDeterministicEarlier(cfg.claims, kp, now)
       IN call' = [rpc |-> "encodeDeterministic", err |-> r.err, jwt |-> r.jwt]
    /\ UNCHANGED <<cfg, now, diags, state, prior, created>>

NextSign == Sign

SpecSign == InitSign /\ [][NextSign]_vars

-----------------------------------------------------------------------------
(* Concurrent calls: Terraform asks the provider for several blocks at once *)

Procs == {1, 2}

\* the calls of the model: mint an operator token (a well-typed seed, a user
\* seed), mint a user token, assemble a bundle (two accounts, a malformed
\* token), derive a public key (a seed, a malformed string)
TwoAccountTokens ==
    <<AccountReadResult(AccountConfig("account", Some("SA1"), Some("SO1"),
                                      Null, Null, Null, Null), 1000).state.jwt,
      AccountReadResult(AccountConfig("account", Some("SA2"), Some("SO1"),
                                      Null, Null, Null, Null), 1000).state.jwt>>
CallInputs ==
    {[ds |-> "operator", seed |-> Some(seed), issued_at |-> Null, expires |-> Null,
      not_before |-> Null] : seed \in {"SO1", "SU1"}}
    \cup {UserConfig(Some("SU1"), Some("SA1"), Null, Null, Null)}
    \cup {ConfigHelperConfig(Null, Some(TwoAccountTokens), Null),
          ConfigHelperConfig(Null, Some(<<GarbageToken>>), Null)}
    \cup {[ds |-> "seed_public_key", seed |-> seed] : seed \in {"SA1", "garbage"}}

\* the results a call on these arguments, started at time t, can end with
CallResults(args, t) ==
    CASE args.ds = "operator" ->
             {IF HasError(ValidateOperator(args)) THEN Rejected(ValidateOperator(args))
              ELSE OperatorReadResult(args, t)}
      [] args.ds = "user" ->
             {IF HasError(ValidateUser(args)) THEN Rejected(ValidateUser(args))
              ELSE UserReadResult(args, t)}
      [] args.ds = "config_helper" ->
             IF HasError(ValidateConfigHelper(args))
             THEN {Rejected(ValidateConfigHelper(args))}
             ELSE {ConfigHelperReadResult(args, order) :
                      order \in MapOrders(DOMAIN ConfigHelperPreload(args).preload)}
      [] args.ds = "seed_public_key" -> {seedPublicKeyRun(args.seed)}

\* the variables of a call: a call that has not begun holds none
NoLocals == [pc |-> "idle", args |-> <<>>, t |-> 0, result |-> <<>>]

\* a call reading its arguments from a package-level variable that the first
\* call also writes
ArgsOf_Shared(p, locals) ==
    IF locals[1].pc # "idle" THEN locals[1].args ELSE locals[p].args

\* var data ...Model; req.Config.Get(ctx, &data): the arguments are a local of
\* the call
ArgsOf(p, locals) == locals[p].args

InitCalls ==
    /\ cfg \in [Procs -> CallInputs]
    /\ now = 1000
    /\ reads = 0
    /\ diags = NoDiags
    /\ state = [p \in Procs |-> NoLocals]
    /\ prior = NoState
    /\ call = NoCall
    /\ created = Null

\* a call begins: it copies its arguments into its own variables
CallBegin(p) ==
    /\ state[p].pc = "idle"
    /\ state' = [state EXCEPT ![p] = [pc |-> "running", args |-> cfg[p], t |-> now,
                                      result |-> <<>>]]
    /\ now' = now + 1
    /\ reads' = reads + 1
    /\ UNCHANGED <<cfg, diags, prior, call, created>>

\* a call ends: it computes its result from its own variables
CallFinish(p) ==
    /\ state[p].pc = "running"
    /\ \E r \in CallResults(ArgsOf(p, state), state[p].t) :
           state' = [state EXCEPT ![p].pc = "done", ![p].result = r]
    /\ now' = now + 1
    /\ UNCHANGED <<cfg, reads, diags, prior, call, created>>

NextCalls ==
    \E p \in Procs :
        \/ CallBegin(p)
        \/ CallFinish(p)

SpecCalls == InitCalls /\ [][NextCalls]_vars

-----------------------------------------------------------------------------
(* The claims *)

\* the data sources that sign a token
SigningSources == {"operator", "account", "system_account", "user"}

\* C1: two refreshes of the same operator, account, system_account or user block,
\* made at different wall-clock times, write the same token, byte for byte.
C1_Determinism ==
    (cfg.ds \in SigningSources /\ reads = 2 /\ prior.written /\ state.written)
        => state.jwt = prior.jwt

\* a block without issued_at, refreshed twice with the wall clock moved in between
C1_Witness ==
    /\ cfg.ds \in {"account", "user"}
    /\ IsNull(cfg.issued_at)
    /\ reads = 2
    /\ now = 1002
    /\ prior.written
    /\ state.written

\* the seed attributes of each block kind and the role each must have
RequiredRole ==
    [operator |-> [seed |-> "operator"],
     account |-> [seed |-> "account", operator_seed |-> "operator"],
     system_account |-> [seed |-> "account", operator_seed |-> "operator"],
     user |-> [seed |-> "user", account_seed |-> "account"]]

\* the seed attributes of the block that hold a well-formed seed of another role
WrongRoleSeeds ==
    {a \in DOMAIN RequiredRole[cfg.ds] :
        /\ ~IsNull(cfg[a])
        /\ cfg[a][1] \in ValidSeeds
        /\ KeyTable[cfg[a][1]].prefix # RequiredRole[cfg.ds][a]}

\* C2: a block whose seed, operator_seed or account_seed holds a well-formed seed of
\* a role other than the one the attribute requires is refused with a
\* wrong-seed-type error on that attribute, and no token is written.
C2_RoleEnforcement ==
    (cfg.ds \in SigningSources /\ reads > 0)
        => \A a \in WrongRoleSeeds :
               /\ <<a, "Wrong NKey Seed Type">> \in diags
               /\ ~state.written

\* an account block given a user seed as its own seed has been refreshed
C2_Witness ==
    /\ cfg.ds = "account"
    /\ cfg.seed = Some("SU1")
    /\ cfg.operator_seed = Some("SO1")
    /\ reads > 0
    /\ <<"seed", "Wrong NKey Seed Type">> \in diags
    /\ ~state.written

\* the attribute holding the seed that signs the token of an issued entity
SigningSeedAttribute ==
    [account |-> "operator_seed", system_account |-> "operator_seed", user |-> "account_seed"]

\* C3: the token an account, system_account or user block writes decodes with a
\* valid signature, its issuer is the public key of the signing seed, its subject
\* is the public key of the entity's own seed, and public_key equals the subject.
C3_ChainVerifiability ==
    (cfg.ds \in DOMAIN SigningSeedAttribute /\ state.written)
        => LET d == Decode(state.jwt)
           IN /\ d.err = ""
              /\ d.claims.iss = KeyTable[cfg[SigningSeedAttribute[cfg.ds]][1]].pub
              /\ d.claims.sub = KeyTable[cfg.seed[1]].pub
              /\ state.public_key = d.claims.sub

\* a user block signed by account A2 has written its token
C3_Witness ==
    /\ cfg.ds = "user"
    /\ cfg.seed = Some("SU1")
    /\ cfg.account_seed = Some("SA2")
    /\ state.written
    /\ state.public_key = "U1"

\* every seed attribute of the block holds a seed of the role it requires
SeedsWellTyped ==
    \A a \in DOMAIN RequiredRole[cfg.ds] :
        /\ ~IsNull(cfg[a])
        /\ cfg[a][1] \in ValidSeeds
        /\ KeyTable[cfg[a][1]].prefix = RequiredRole[cfg.ds][a]

\* the iat the block asks for: issued_at, or 0 when it is omitted
EffectiveIssuedAt == IF IsNull(cfg.issued_at) THEN 0 ELSE cfg.issued_at[1]

\* C4: for every entity kind (operator, account, system account, user) a block with
\* well-typed seeds yields a token whose iat is issued_at, or 0 when omitted; whose
\* exp is expires, or 0 when omitted; and whose nbf is not_before, or the effective
\* iat when omitted.
C4_TemporalDefaults ==
    (cfg.ds \in SigningSources /\ reads > 0 /\ SeedsWellTyped)
        => /\ state.written
           /\ LET c == Decode(state.jwt).claims
              IN /\ c.iat = EffectiveIssuedAt
                 /\ c.exp = (IF IsNull(cfg.expires) THEN 0 ELSE cfg.expires[1])
                 /\ c.nbf = (IF IsNull(cfg.not_before) THEN EffectiveIssuedAt
                             ELSE cfg.not_before[1])

\* the tokens a config helper block was given
SuppliedTokens ==
    (IF IsNull(cfg.system_account_jwt) THEN {} ELSE {cfg.system_account_jwt[1]})
    \cup (IF IsNull(cfg.account_jwts) THEN {}
          ELSE {cfg.account_jwts[1][i] : i \in 1..Len(cfg.account_jwts[1])})

\* C5: when the system-account token (if any) and all the account tokens decode, the
\* resolver_preload map's keys are exactly the subjects decoded from those tokens,
\* each key is mapped to a supplied token whose decoded subject is that key, and
\* system_account is the system token's subject, or empty when none is supplied.
C5_BundleAssembly ==
    (/\ cfg.ds = "config_helper"
     /\ reads > 0
     /\ cfg.resolver_type \in {Null, Some("MEMORY")}
     /\ \A tk \in SuppliedTokens : DecodeAccountClaims(tk).err = "")
        => /\ state.written
           /\ DOMAIN state.resolver_preload =
                  {DecodeAccountClaims(tk).claims.sub : tk \in SuppliedTokens}
           /\ \A k \in DOMAIN state.resolver_preload :
                  /\ state.resolver_preload[k] \in SuppliedTokens
                  /\ DecodeAccountClaims(state.resolver_preload[k]).claims.sub = k
           /\ state.system_account =
                  (IF IsNull(cfg.system_account_jwt) THEN ""
                   ELSE DecodeAccountClaims(cfg.system_account_jwt[1]).claims.sub)

\* the system account A1 and the accounts A2 and A3 have been assembled
C5_Witness ==
    /\ cfg.ds = "config_helper"
    /\ cfg.system_account_jwt = Some(SystemAccountToken)
    /\ ~IsNull(cfg.account_jwts)
    /\ Len(cfg.account_jwts[1]) = 2
    /\ state.written
    /\ DOMAIN state.resolver_preload = {"A1", "A2", "A3"}
    /\ state.system_account = "A1"

\* server_config is, in order: the operator line; a system_account line when
\* sysLine; the resolver line; and, when the preload map is not empty, the line
\* opening the resolver_preload block, one line per entry of the map, in any
\* order, and the closing line
ServerConfigLayout(sysLine) ==
    LET sc == state.server_config
        preload == state.resolver_preload
        n == Cardinality(DOMAIN preload)
        base == IF sysLine THEN 3 ELSE 2
    IN /\ Len(sc) = base + (IF n = 0 THEN 0 ELSE n + 2)
       /\ sc[1] = <<"operator: ", cfg.operator_jwt[1]>>
       /\ sysLine => sc[2] = <<"system_account: ", state.system_account>>
       /\ sc[base] = <<"resolver: ", "MEMORY">>
       /\ n > 0 =>
              /\ sc[base + 1] = <<"resolver_preload: {">>
              /\ sc[Len(sc)] = <<"}">>
              /\ \A k \in DOMAIN preload :
                     \E i \in (base + 2)..(base + n + 1) :
                         sc[i] = <<"  ", k, ": ", preload[k]>>

\* C6: server_config is, in this order, one operator line, a system_account line
\* if and only if a system-account token was supplied, one `resolver: MEMORY`
\* line, and a resolver_preload block if and only if the preload map is not
\* empty, holding exactly one `  <key>: <value>` line per entry of the map.
C6_Rendering ==
    (cfg.ds = "config_helper" /\ state.written)
        => ServerConfigLayout(~IsNull(cfg.system_account_jwt))

\* a config was rendered from the system-account token of A1 and the account
\* tokens of A2 and A3: eight lines, the second naming A1
C6_Witness ==
    /\ cfg.ds = "config_helper"
    /\ cfg.system_account_jwt = Some(SystemAccountToken)
    /\ ~IsNull(cfg.account_jwts)
    /\ Len(cfg.account_jwts[1]) = 2
    /\ state.written
    /\ Len(state.server_config) = 8
    /\ state.server_config[2] = <<"system_account: ", "A1">>

\* the exports of c of the given type on the given subject
ExportsOn(c, type, subject) ==
    {i \in 1..Len(c.exports) :
        c.exports[i].type = type /\ c.exports[i].subject = subject}

\* C7: every token a system_account block writes holds a service export on
\* $SYS.REQ.ACCOUNT.*.* and a stream export on $SYS.ACCOUNT.*.>, whatever other
\* options the block sets.
C7_DefaultExports ==
    (cfg.ds = "system_account" /\ state.written)
        => LET c == DecodeAccountClaims(state.jwt).claims
           IN /\ ExportsOn(c, "service", "$SYS.REQ.ACCOUNT.*.*") # {}
              /\ ExportsOn(c, "stream", "$SYS.ACCOUNT.*.>") # {}

\* a system_account block with JetStream limits and temporal options has written
C7_Witness ==
    /\ cfg.ds = "system_account"
    /\ ~IsNull(cfg.jetstream_limits)
    /\ Len(cfg.jetstream_limits[1]) = 2
    /\ state.written
    /\ Len(DecodeAccountClaims(state.jwt).claims.exports) = 2

\* the number of exports of c on the given subject
CountOn(c, subject) ==
    Cardinality({i \in 1..Len(c.exports) : c.exports[i].subject = subject})

\* the exports of c as a set
ExportSet(c) == {c.exports[i] : i \in 1..Len(c.exports)}

C9_TieredPlacement ==
    (/\ cfg.ds \in {"account", "system_account"}
     /\ state.written
     /\ ~IsNull(cfg.jetstream_limits)
     /\ \A i \in 1..Len(cfg.jetstream_limits[1]) :
            /\ ~IsNull(cfg.jetstream_limits[1][i].tier)
            /\ cfg.jetstream_limits[1][i].tier[1] # "")
        => LET blocks == cfg.jetstream_limits[1]
               c == DecodeAccountClaims(state.jwt).claims
           IN /\ c.js = ZeroJetStreamLimits
              /\ DOMAIN c.tiered = {blocks[i].tier[1] : i \in 1..Len(blocks)}
              /\ \A i \in 1..Len(blocks) :
                     (\A j \in (i + 1)..Len(blocks) : blocks[j].tier # blocks[i].tier)
                         => c.tiered[blocks[i].tier[1]] = JetStreamLimitOf(blocks[i])

\* an account with a block of 5 streams on R1 and a block of 10 streams on R3
C9_Witness ==
    /\ cfg.ds = "account"
    /\ cfg.jetstream_limits =
           Some(<<JetStreamBlock(Some("R1"), Some(5), Some(1024)),
                  JetStreamBlock(Some("R3"), Some(10), Null)>>)
    /\ state.written
    /\ DecodeAccountClaims(state.jwt).claims.tiered["R1"].streams = 5
    /\ DecodeAccountClaims(state.jwt).claims.tiered["R3"].streams = 10

\* C10: a user block that writes a token also writes creds, a credentials file
\* whose token part is exactly jwt and whose seed part is a user seed with the
\* public key public_key, the subject of the decoded user token.
C10_CredsRoundTrip ==
    (cfg.ds = "user" /\ state.written)
        => /\ "creds" \in DOMAIN state
           /\ ParseDecoratedJWT(state.creds) = state.jwt
           /\ LET seed == ParseDecoratedUserNKey(state.creds)
              IN /\ seed \in ValidSeeds
                 /\ KeyTable[seed].prefix = "user"
                 /\ KeyTable[seed].pub = state.public_key
           /\ DecodeUserClaims(state.jwt).claims.sub = state.public_key

\* C11: a user block with a non-empty time_restrictions list and no locale is
\* refused with an error and writes no token; with both set it writes a token
\* whose decoded time ranges and locale are the ones given.
C11_TimeRestrictionsNeedLocale ==
    (/\ cfg.ds = "user"
     /\ reads > 0
     /\ SeedsWellTyped
     /\ ~IsNull(cfg.time_restrictions)
     /\ cfg.time_restrictions[1] # <<>>)
        => IF IsNull(cfg.locale)
           THEN HasError(diags) /\ ~state.written
           ELSE /\ state.written
                /\ DecodeUserClaims(state.jwt).claims.times = cfg.time_restrictions[1]
                /\ DecodeUserClaims(state.jwt).claims.locale = cfg.locale[1]

\* the connection types a user token may allow
ValidConnectionTypes == {"STANDARD", "WEBSOCKET", "LEAFNODE", "MQTT"}

\* C17: the allowed connection types of a user token are all among STANDARD,
\* WEBSOCKET, LEAFNODE and MQTT, and a user block whose allowed_connection_types
\* holds any other value writes no token.
C17_ConnectionTypesEnum ==
    (cfg.ds = "user" /\ reads > 0)
        => /\ state.written =>
                  \A i \in 1..Len(DecodeUserClaims(state.jwt).claims.allowed_connection_types) :
                      DecodeUserClaims(state.jwt).claims.allowed_connection_types[i]
                          \in ValidConnectionTypes
           /\ (/\ ~IsNull(cfg.allowed_connection_types)
               /\ \E i \in 1..Len(cfg.allowed_connection_types[1]) :
                      cfg.allowed_connection_types[1][i] \notin ValidConnectionTypes)
                  => ~state.written

\* C12: a config helper block whose resolver_type is set to anything but MEMORY is
\* refused with the unsupported-resolver error alone, whatever its tokens are, and
\* writes nothing; a block without resolver_type that writes has resolver MEMORY.
C12_UnsupportedResolver ==
    (cfg.ds = "config_helper" /\ reads > 0)
        => /\ (~IsNull(cfg.resolver_type) /\ cfg.resolver_type[1] # "MEMORY")
                  => /\ diags = {<<"", "Unsupported Resolver Type">>}
                     /\ state = NoState
           /\ (IsNull(cfg.resolver_type) /\ state.written)
                  => state.resolver = "MEMORY"

\* a block with resolver_type URL and a malformed account token has been refused
C12_Witness ==
    /\ cfg.ds = "config_helper"
    /\ cfg.resolver_type = Some("URL")
    /\ cfg.account_jwts = Some(<<GarbageToken>>)
    /\ reads > 0
    /\ diags = {<<"", "Unsupported Resolver Type">>}

\* C13: when the system-account token or any entry of account_jwts does not decode
\* as account claims, the config helper reports a decoding error and writes
\* nothing at all, however many earlier tokens decoded.
C13_MalformedToken ==
    (/\ cfg.ds = "config_helper"
     /\ reads > 0
     /\ cfg.resolver_type \in {Null, Some("MEMORY")}
     /\ \E tk \in SuppliedTokens : DecodeAccountClaims(tk).err # "")
        => /\ diags \in {{<<"", "Invalid System Account JWT">>},
                         {<<"", "Invalid Account JWT">>}}
           /\ state = NoState

\* a valid system-account token, a valid account token and then a malformed one
C13_Witness ==
    /\ cfg.ds = "config_helper"
    /\ cfg.system_account_jwt = Some(SystemAccountToken)
    /\ ~IsNull(cfg.account_jwts)
    /\ Len(cfg.account_jwts[1]) = 2
    /\ DecodeAccountClaims(cfg.account_jwts[1][1]).err = ""
    /\ cfg.account_jwts[1][2] = GarbageToken
    /\ reads > 0
    /\ diags = {<<"", "Invalid Account JWT">>}
    /\ state = NoState

\* the tokens of the block in assembly order: the system-account token, then
\* account_jwts in list order
AssemblyOrder ==
    (IF IsNull(cfg.system_account_jwt) THEN <<>> ELSE <<cfg.system_account_jwt[1]>>)
    \o (IF IsNull(cfg.account_jwts) THEN <<>> ELSE cfg.account_jwts[1])

\* C14: the preload map holds, for each subject, the token that comes last in
\* assembly order among the tokens decoding to that subject.
C14_LastWins ==
    (cfg.ds = "config_helper" /\ state.written)
        => \A i \in 1..Len(AssemblyOrder) :
               LET subject == DecodeAccountClaims(AssemblyOrder[i]).claims.sub
               IN (\A j \in (i + 1)..Len(AssemblyOrder) :
                       DecodeAccountClaims(AssemblyOrder[j]).claims.sub # subject)
                      => /\ subject \in DOMAIN state.resolver_preload
                         /\ state.resolver_preload[subject] = AssemblyOrder[i]

\* a system-account token for A1 and two different account tokens for A1
C14_Witness ==
    /\ cfg.ds = "config_helper"
    /\ cfg.system_account_jwt = Some(SystemAccountToken)
    /\ ~IsNull(cfg.account_jwts)
    /\ Len(cfg.account_jwts[1]) = 2
    /\ cfg.account_jwts[1][1] # cfg.account_jwts[1][2]
    /\ cfg.account_jwts[1][1] # SystemAccountToken
    /\ state.written
    /\ DOMAIN state.resolver_preload = {"A1"}
    /\ state.resolver_preload["A1"] = cfg.account_jwts[1][2]

\* the positions of the jetstream_limits blocks without a tier label
UnlabelledBlocks ==
    {i \in 1..Len(cfg.jetstream_limits[1]) :
        \/ IsNull(cfg.jetstream_limits[1][i].tier)
        \/ cfg.jetstream_limits[1][i].tier[1] = ""}

\* an account or system_account block with more than one unlabelled
\* jetstream_limits block has been refreshed
DuplicateGlobalLimits ==
    /\ cfg.ds \in {"account", "system_account"}
    /\ reads > 0
    /\ ~IsNull(cfg.jetstream_limits)
    /\ Cardinality(UnlabelledBlocks) > 1

\* C15: an account built from more than one jetstream_limits block without a
\* tier label reports a configuration conflict, a diagnostic the caller can
\* observe, rather than silently keeping only one of the blocks.
C15_DuplicatesFlagged ==
    DuplicateGlobalLimits => diags # NoDiags

\* C16 as stated: the decoded subject of every token written (operator, account,
\* system account, user) differs from its decoded issuer.
C16_NoSelfSigned ==
    (cfg.ds \in SigningSources /\ state.written)
        => Decode(state.jwt).claims.sub # Decode(state.jwt).claims.iss

\* C16, amended: the decoded subject of every account, system-account and user
\* token written differs from its decoded issuer; an operator token is
\* self-signed, its subject equal to its issuer.
C16_OnlyOperatorSelfSigned ==
    (cfg.ds \in SigningSources /\ state.written)
        => IF cfg.ds = "operator"
           THEN Decode(state.jwt).claims.sub = Decode(state.jwt).claims.iss
           ELSE Decode(state.jwt).claims.sub # Decode(state.jwt).claims.iss

\* an operator block has written a token whose subject and issuer are both O1
C16_Witness ==
    /\ cfg.ds = "operator"
    /\ state.written
    /\ Decode(state.jwt).err = ""
    /\ Decode(state.jwt).claims.sub = "O1"
    /\ Decode(state.jwt).claims.iss = "O1"

\* C18: after a refresh of any data block (operator, account, system_account, user,
\* config_helper), either an error is reported and no state at all is written, or
\* no error is reported and the outputs are written together.
C18_AllOrNothing ==
    (cfg.ds \in SigningSources \cup {"config_helper"} /\ reads > 0)
        => IF HasError(diags)
           THEN state = NoState
           ELSE /\ state.written
                /\ IF cfg.ds = "config_helper"
                   THEN {"server_config", "resolver_preload", "system_account",
                         "operator", "resolver"} \subseteq DOMAIN state
                   ELSE {"jwt", "public_key"} \subseteq DOMAIN state

\* the config helper was given a user token as its system-account token, after
\* which Read reported the error and wrote nothing
C18_Witness ==
    /\ cfg.ds = "config_helper"
    /\ cfg.system_account_jwt = Some(UserToken)
    /\ reads > 0
    /\ diags = {<<"", "Invalid System Account JWT">>}
    /\ state = NoState


\* C19: a seed_public_key call on a valid operator, account or user seed ends
\* without an error and with the public key derived from that seed, so that the
\* result is a function of the argument and names the role the seed names; a
\* call on a string that is not a valid seed ends with an argument error and
\* no result.
C19_SeedPublicKey ==
    call.rpc = "CallFunction" =>
        /\ (call.argument \in ValidSeeds
            /\ DecodeSeed(call.argument).prefix \in NkeyTypes) =>
               /\ call.error = Null
               /\ call.result = Some(KeyTable[call.argument].pub)
               /\ PubPrefix(call.result[1]) = DecodeSeed(call.argument).prefix
        /\ call.argument \notin ValidSeeds =>
               /\ call.error # Null
               /\ call.result = Null

C19_Witness ==
    /\ call.rpc = "CallFunction"
    /\ call.argument = "SU1"
    /\ call.result = Some("U1")

\* C20: a Create of an nkey block whose type is operator, account or user
\* stores a seed of that role and the public key derived from that seed, which
\* names the same role; a Create with any other type reports an error and
\* stores nothing.
C20_NkeyCreation ==
    call.rpc = "Create" =>
        IF ~IsNull(cfg.type) /\ ValueString(cfg.type) \in NkeyTypes
        THEN /\ diags = NoDiags
             /\ state.written
             /\ state.type = cfg.type
             /\ ~DecodeSeed(ValueString(state.seed)).err
             /\ DecodeSeed(ValueString(state.seed)).prefix = ValueString(cfg.type)
             /\ state.public_key = Some(KeyTable[ValueString(state.seed)].pub)
             /\ PubPrefix(ValueString(state.public_key)) = ValueString(cfg.type)
        ELSE /\ HasError(diags)
             /\ ~state.written

C20_Witness ==
    /\ call.rpc = "Create"
    /\ cfg.type = Some("operator")
    /\ state.written
    /\ state.seed = Some("SO1")
    /\ state.public_key = Some("O1")


\* the keys of a keepers value, and the keys whose value is not null
KeeperDomain(v) == IF IsNull(v) \/ IsUnknown(v) THEN {} ELSE DOMAIN v[1]
ValuedKeys(v) == {k \in KeeperDomain(v) : ~IsNull(v[1][k])}

\* C30: the keepers plan modifier asks for replacement exactly when the stored
\* keepers are not null, the planned keepers are neither null nor unknown, and
\* a key with a non-null stored value has another planned value or is missing
\* from the plan; so it never asks when the stored keepers are null, when the
\* planned keepers are null or unknown, or when keys were only added.
C30_KeepersRule ==
    call.rpc = "PlanModifyMap" =>
        LET st == cfg.state_value
            pl == cfg.plan_value
            both == ~IsNull(st) /\ ~IsNull(pl) /\ ~IsUnknown(pl)
            changed == {k \in ValuedKeys(st) \cap KeeperDomain(pl) : pl[1][k] # st[1][k]}
            removed == ValuedKeys(st) \ KeeperDomain(pl)
            onlyAdded == /\ both
                         /\ KeeperDomain(st) \subseteq KeeperDomain(pl)
                         /\ \A k \in KeeperDomain(st) : pl[1][k] = st[1][k]
        IN /\ call.requires_replace <=> (both /\ (changed # {} \/ removed # {}))
           /\ IsNull(st) => ~call.requires_replace
           /\ IsNull(pl) \/ IsUnknown(pl) => ~call.requires_replace
           /\ onlyAdded => ~call.requires_replace

C30_Witness ==
    /\ call.rpc = "PlanModifyMap"
    /\ call.requires_replace
    /\ cfg.state_value = Some([k1 |-> Some("a"), k2 |-> Null])
    /\ cfg.plan_value = Some([k2 |-> Some("b")])


\* C21: every change of the keepers of a stored nkey block, a value changed, a
\* key added or removed, the map added or removed, is planned as a replacement
\* (Delete, then a Create that generates a new pair).
C21_KeepersAlwaysReplace ==
    (/\ call.rpc = "Plan"
     /\ state.written
     /\ state.seed = created
     /\ call.plan.keepers # state.keepers) =>
        call.plan.requires_replace

\* C27: an Update stores the seed and the public key of the prior state,
\* whatever the plan holds for them, and takes keepers and type from the plan;
\* the type is the prior one.
C27_UpdateFrame ==
    call.rpc = "Update" =>
        /\ diags = NoDiags
        /\ state.written
        /\ state.seed = prior.seed
        /\ state.public_key = prior.public_key
        /\ state.keepers = call.plan.keepers
        /\ state.type = call.plan.type
        /\ state.type = prior.type

C27_Witness ==
    /\ call.rpc = "Update"
    /\ call.plan.keepers # prior.keepers
    /\ state.keepers = call.plan.keepers
    /\ created = Some("SA2")
    /\ prior.seed = Some("SA2")
    /\ state.seed = Some("SA2")
    /\ state.public_key = Some("A2")

\* C28: a Read of a stored block whose seed decodes stores the public key
\* derived from that seed and leaves seed, type and keepers as they were; a
\* Read of a block whose seed does not decode removes the block from the state
\* and reports nothing.
C28_NkeyRead ==
    call.rpc = "Read" =>
        IF ~DecodeSeed(ValueString(prior.seed)).err
        THEN /\ diags = NoDiags
             /\ state.written
             /\ state.public_key = Some(KeyTable[ValueString(prior.seed)].pub)
             /\ state.seed = prior.seed
             /\ state.type = prior.type
             /\ state.keepers = prior.keepers
        ELSE /\ diags = NoDiags
             /\ ~state.written

C28_Witness ==
    /\ call.rpc = "Read"
    /\ prior.written
    /\ prior.seed = Some("garbage")
    /\ ~state.written
    /\ diags = NoDiags

\* C29: once a Create has run, a stored nkey block holds the seed that the
\* latest Create generated, a seed of the role its type names, and the public
\* key derived from that seed, after any Read, Update, Delete or replacement.
C29_Lifecycle ==
    (state.written /\ created # Null) =>
        /\ state.seed = created
        /\ ~DecodeSeed(ValueString(state.seed)).err
        /\ DecodeSeed(ValueString(state.seed)).prefix = ValueString(state.type)
        /\ state.public_key = Some(KeyTable[ValueString(state.seed)].pub)

C29_Witness ==
    /\ call.rpc = "Read"
    /\ reads >= 3
    /\ created = Some("SA3")
    /\ state.written
    /\ state.seed = created
    /\ state.keepers # Null
    /\ cfg.keepers = state.keepers


\* the claim set a returned token carries in its second segment
SignedPayload == loadClaims(UnB64(call.jwt[2]).v).claims
\* whether the throwaway encode of the call fails
TrialFails ==
    Encode([cfg.claims EXCEPT !.jti = EmptyID,
                              !.iss = kpPublicKey(keypairFromSeed(cfg.signer))],
           keypairFromSeed(cfg.signer), now).err # ""

\* C22: whatever the throwaway encode writes into IssuedAt and the identifier,
\* the payload of the token encodeDeterministic returns has the iat the claims
\* had on entry and an empty jti.
C22_IntendedIssuedAt ==
    (call.rpc = "encodeDeterministic" /\ call.err = "") =>
        /\ SignedPayload.iat = cfg.claims.iat
        /\ SignedPayload.jti = EmptyID

C22_Witness ==
    /\ call.rpc = "encodeDeterministic"
    /\ call.err = ""
    /\ ~TrialFails
    /\ cfg.claims.iat = 5
    /\ cfg.claims.jti = StaleID
    /\ now = 2000
    /\ SignedPayload.iat = 5

\* C23: encodeDeterministic returns a token only if the throwaway encode
\* succeeded; when it fails, for a signer or a subject of the wrong role, the
\* call ends with an error and an empty token.
C23_NoTokenAfterFailedTrial ==
    (call.rpc = "encodeDeterministic" /\ TrialFails) =>
        /\ call.err # ""
        /\ call.jwt = NoToken

\* C24: a returned token has three segments: the constant encoding of the
\* header {typ: JWT, alg: ed25519-nkey}, the encoding of the claim set, and the
\* signer's signature over the first two segments joined, so that the token
\* verifies under the public key its payload names as issuer.
C24_TokenFormat ==
    (call.rpc = "encodeDeterministic" /\ call.err = "") =>
        /\ Len(call.jwt) = 3
        /\ call.jwt[1] = B64(MarshalHeader(JWTHeader))
        /\ ~UnB64(call.jwt[2]).err
        /\ ~loadClaims(UnB64(call.jwt[2]).v).err
        /\ SignedPayload.sub = cfg.claims.sub
        /\ SignedPayload.exp = cfg.claims.exp
        /\ SignedPayload.nbf = cfg.claims.nbf
        /\ SignedPayload.iss = kpPublicKey(keypairFromSeed(cfg.signer))
        /\ call.jwt[3] = B64(kpSign(keypairFromSeed(cfg.signer),
                                    <<call.jwt[1], call.jwt[2]>>))
        /\ Verify(SignedPayload.iss, <<call.jwt[1], call.jwt[2]>>,
                  UnB64(call.jwt[3]).v)

C24_Witness ==
    /\ call.rpc = "encodeDeterministic"
    /\ call.err = ""
    /\ cfg.claims.kind = "user"
    /\ cfg.claims.sub = "U1"
    /\ cfg.signer = "SA2"
    /\ Decode(call.jwt).err = ""


\* the positions of the jetstream_limits blocks with a tier label
LabelledBlocks == (1..Len(cfg.jetstream_limits[1])) \ UnlabelledBlocks
\* the last position of a non-empty set of positions
LastOf(S) == CHOOSE i \in S : \A j \in S : j <= i

\* C25: in the token of an account or system_account block, the global
\* JetStream limit record holds the limits of the last block without a tier
\* label (null or empty), and is left at its default when there is none; the
\* tier map has exactly the labels of the labelled blocks, each with the
\* limits of the last block of that label.
C25_LastWriteWins ==
    (/\ cfg.ds \in {"account", "system_account"}
     /\ state.written
     /\ ~IsNull(cfg.jetstream_limits)) =>
        LET blocks == cfg.jetstream_limits[1]
            c == DecodeAccountClaims(state.jwt).claims
        IN /\ c.js = IF UnlabelledBlocks = {} THEN ZeroJetStreamLimits
                     ELSE JetStreamLimitOf(blocks[LastOf(UnlabelledBlocks)])
           /\ DOMAIN c.tiered = {blocks[i].tier[1] : i \in LabelledBlocks}
           /\ \A l \in DOMAIN c.tiered :
                  c.tiered[l] =
                      JetStreamLimitOf(
                          blocks[LastOf({i \in LabelledBlocks : blocks[i].tier[1] = l})])

\* a labelled block after an unlabelled one
C25_Witness ==
    /\ cfg.ds = "account"
    /\ cfg.jetstream_limits =
           Some(<<JetStreamBlock(Null, Some(5), Some(1024)),
                  JetStreamBlock(Some("R1"), Some(10), Null)>>)
    /\ state.written
    /\ DecodeAccountClaims(state.jwt).claims.js.streams = 5
    /\ DOMAIN DecodeAccountClaims(state.jwt).claims.tiered = {"R1"}
    /\ DecodeAccountClaims(state.jwt).claims.tiered["R1"].streams = 10


\* the result of a finished call, and the lines of a bundle's server config
Done(p) == state[p].pc = "done"
ConfigLines(r) == {r.state.server_config[i] : i \in 1..Len(r.state.server_config)}
\* two results that differ at most in the order of the server config's lines
SameUpToLineOrder(r1, r2) ==
    \/ r1 = r2
    \/ /\ "state" \in DOMAIN r1 /\ "state" \in DOMAIN r2
       /\ r1.diags = r2.diags
       /\ "server_config" \in DOMAIN r1.state /\ "server_config" \in DOMAIN r2.state
       /\ [r1.state EXCEPT !.server_config = <<>>] = [r2.state EXCEPT !.server_config = <<>>]
       /\ Len(r1.state.server_config) = Len(r2.state.server_config)
       /\ ConfigLines(r1) = ConfigLines(r2)

\* C26 as stated: the result of a call depends on its own arguments only:
\* under any interleaving, two finished calls with the same arguments have the
\* same result, the one the call has when run alone.
C26_SameResult ==
    \A p, q \in Procs :
        (Done(p) /\ Done(q) /\ cfg[p] = cfg[q]) => state[p].result = state[q].result

\* C26, amended: under any interleaving, and after a failed call, a finished
\* call has a result that the same call can have when run alone, and two
\* finished calls with the same arguments have the same result up to the order
\* of the resolver_preload lines of a bundle's server config, which follows
\* the iteration order of a map.
C26_Independence ==
    \A p, q \in Procs :
        /\ Done(p) => state[p].result \in CallResults(cfg[p], 1000)
        /\ (Done(p) /\ Done(q) /\ cfg[p] = cfg[q])
               => SameUpToLineOrder(state[p].result, state[q].result)

\* two overlapping calls that assemble the same bundle of two accounts and end
\* with the lines in different orders
C26_Witness ==
    /\ Done(1) /\ Done(2)
    /\ cfg[1] = ConfigHelperConfig(Null, Some(TwoAccountTokens), Null)
    /\ cfg[2] = cfg[1]
    /\ state[2].t = state[1].t + 1
    /\ state[1].result # state[2].result
    /\ state[1].result.state.resolver_preload = state[2].result.state.resolver_preload

=============================================================================
